---------------------------- MODULE Spec2Model ----------------------------
(***************************************************************************)
(* Model of the patient record service of src/main.py: a FastAPI           *)
(* application whose handlers load the whole collection from               *)
(* patients.json, change it in memory and write it back.                   *)
(*                                                                         *)
(* Granularity.  load_data and save_data are each one step (one open,      *)
(* one read or one dump, one close).  A handler is cut at its file         *)
(* accesses: everything a handler computes between two file accesses is    *)
(* local to the request and is folded into the step of the file access     *)
(* that precedes it.  FastAPI runs `def` handlers on a thread pool, so     *)
(* the steps of different requests interleave freely.                      *)
(*                                                                         *)
(* Numbers.  Heights (cm) and weights (kg) are drawn from integers; a bmi  *)
(* is held in hundredths (23.15 is 2315), which is exact for a value       *)
(* rounded to two decimals.                                                *)
(***************************************************************************)
EXTENDS Integers, Sequences, FiniteSets, TLC

VARIABLES file,     \* content of patients.json: an ordered mapping id -> record
          pc,       \* per worker thread: position of the request it runs
          req,      \* per worker thread: the request being handled
          data,     \* per worker thread: the handler's local `data`
          loaded,   \* per worker thread: what load_data() returned (history)
          nloads,   \* per worker thread: load_data calls of the request (history)
          nwrites,  \* per worker thread: writes of patients.json by the request
          resp,     \* the response sent last
          done,     \* the requests that reported success after writing (history)
          nreq      \* number of requests received so far

vars == <<file, pc, req, data, loaded, nloads, nwrites, resp, done, nreq>>

(***************************************************************************)
(* Bounds of the model.                                                    *)
(***************************************************************************)
MaxRequests == 3

Threads == {1, 2}

\* Identifiers that requests name; patients.json may hold others too.
Ids == {"P1", "P2"}

(***************************************************************************)
(* Python dict / JSON object with insertion order: a sequence of           *)
(* <<key, value>> pairs with distinct keys.                                *)
(***************************************************************************)
Keys(d) == {d[i][1] : i \in DOMAIN d}

Has(d, k) == k \in Keys(d)

Get(d, k) == d[CHOOSE i \in DOMAIN d : d[i][1] = k][2]

\* data = {k: v} in place of data[k] = v.
Put_Alone(d, k, v) == << <<k, v>> >>

Put(d, k, v) ==
    IF Has(d, k)
    THEN [i \in DOMAIN d |-> IF d[i][1] = k THEN <<k, v>> ELSE d[i]]
    ELSE Append(d, <<k, v>>)

IsNotKey(e, k) == e[1] # k

Del(d, k) == SelectSeq(d, LAMBDA e : IsNotKey(e, k))

Values(d) == [i \in DOMAIN d |-> d[i][2]]

(***************************************************************************)
(* Record Model: class Patient.                                            *)
(***************************************************************************)
BaseFields == {"name", "city", "age", "gender", "height", "weight"}

DerivedFields == {"bmi", "verdict"}

\* round(x, 2) of x = num / den, in hundredths; a tie goes to the even
\* neighbour, as Python's round does.
Round2(num, den) ==
    LET q == (100 * num) \div den
        r == (100 * num) % den
    IN  IF 2 * r > den THEN q + 1
        ELSE IF 2 * r < den THEN q
        ELSE IF q % 2 = 0 THEN q ELSE q + 1

\* Patient.bmi: round(weight / (height / 100) ** 2, 2), in hundredths.
Bmi(height, weight) == Round2(weight * 10000, height * height)

\* The thresholds without the gap between 24.9 and 25.
Verdict_NoGap(bmi) ==
    IF bmi < 1850 THEN "Underweight"
    ELSE IF bmi < 2500 THEN "Healthy"
    ELSE IF bmi < 2990 THEN "Overweight"
    ELSE "Obese"

\* Patient.verdict, bmi in hundredths.
Verdict(bmi) ==
    IF bmi < 1850 THEN "Underweight"
    ELSE IF 1850 <= bmi /\ bmi < 2490 THEN "Healthy"
    ELSE IF 2500 <= bmi /\ bmi < 2990 THEN "Overweight"
    ELSE "Obese"

\* Patient without the upper limit of age.
PatientValid_NoUpper(p) ==
    /\ p.age > 0
    /\ p.height > 0
    /\ p.weight > 0

\* The Field constraints of Patient on a value that has every base field.
PatientValid(p) ==
    /\ p.age > 0 /\ p.age < 120
    /\ p.height > 0
    /\ p.weight > 0

\* model_dump() without the exclude: the identifier is stored too.
ModelDump_WithId(p) ==
    [id      |-> p.id,
     name    |-> p.name,
     city    |-> p.city,
     age     |-> p.age,
     gender  |-> p.gender,
     height  |-> p.height,
     weight  |-> p.weight,
     bmi     |-> Bmi(p.height, p.weight),
     verdict |-> Verdict(Bmi(p.height, p.weight))]

\* The dump that keeps a bmi and a verdict its argument carries, and
\* computes them only when there are none.
ModelDump_Carry(p) ==
    [name    |-> p.name,
     city    |-> p.city,
     age     |-> p.age,
     gender  |-> p.gender,
     height  |-> p.height,
     weight  |-> p.weight,
     bmi     |-> IF "bmi" \in DOMAIN p THEN p.bmi ELSE Bmi(p.height, p.weight),
     verdict |-> IF "verdict" \in DOMAIN p THEN p.verdict
                 ELSE Verdict(Bmi(p.height, p.weight))]

\* patient.model_dump(exclude=['id']): the base fields and the computed
\* fields bmi and verdict; the identifier is left out.
ModelDump(p) ==
    [name    |-> p.name,
     city    |-> p.city,
     age     |-> p.age,
     gender  |-> p.gender,
     height  |-> p.height,
     weight  |-> p.weight,
     bmi     |-> Bmi(p.height, p.weight),
     verdict |-> Verdict(Bmi(p.height, p.weight))]


(***************************************************************************)
(* Partial update: class PatientUpdate.  A request body is held as         *)
(*   v     : the fields the body supplies with a value,                    *)
(*   nulls : the fields the body supplies as null.                         *)
(* Both kinds of field are "set" for model_dump(exclude_unset=True).       *)
(***************************************************************************)
Genders == {"Male", "Female"}

\* PatientUpdate with gender a plain str, as Patient has it.
PatientUpdateValid_AnyGender(u) ==
    /\ "age" \in DOMAIN u.v => (u.v.age > 0 /\ u.v.age < 120)
    /\ "height" \in DOMAIN u.v => u.v.height > 0
    /\ "weight" \in DOMAIN u.v => u.v.weight > 0

\* The Field constraints of PatientUpdate; every field is Optional, so a
\* null passes.
PatientUpdateValid(u) ==
    /\ "age" \in DOMAIN u.v => (u.v.age > 0 /\ u.v.age < 120)
    /\ "gender" \in DOMAIN u.v => u.v.gender \in Genders
    /\ "height" \in DOMAIN u.v => u.v.height > 0
    /\ "weight" \in DOMAIN u.v => u.v.weight > 0

\* The stored record replaced by the body's fields, not merged with them.
Merge_PayloadOnly(existing, u, patient_id) ==
    [v     |-> [f \in (DOMAIN u.v \ u.nulls) \cup {"id"} |->
                   IF f = "id" THEN patient_id ELSE u.v[f]],
     nulls |-> u.nulls]

\* Lines 119-127: the loop that copies every set field of the body onto the
\* stored record (a null overwrites the stored value with None), and the
\* assignment of the 'id' key.
Merge(existing, u, patient_id) ==
    [v     |-> [f \in ((DOMAIN existing \cup DOMAIN u.v) \ u.nulls) \cup {"id"} |->
                   IF f = "id" THEN patient_id
                   ELSE IF f \in DOMAIN u.v THEN u.v[f] ELSE existing[f]],
     nulls |-> u.nulls]

\* Patient(**existring_patient_info) succeeds: every base field is there,
\* none is None, and the Field constraints hold.  Keys that are no field
\* of Patient (a stored bmi or verdict) are ignored.
PatientConstructs(m) ==
    /\ BaseFields \subseteq DOMAIN m.v
    /\ m.nulls \cap BaseFields = {}
    /\ PatientValid(m.v)

(***************************************************************************)
(* sorted(data.values(), key=lambda x: x.get(sort_by, 0), reverse=...)     *)
(***************************************************************************)
ValidFields == {"height", "weight", "bmi"}

ValidOrders == {"asc", "desc"}

SortKey(x, sort_by) == IF sort_by \in DOMAIN x THEN x[sort_by] ELSE 0

\* A comparison that ignores reverse: the order is always ascending.
Before_Ascending(x, e, sort_by, reverse) ==
    SortKey(x, sort_by) < SortKey(e, sort_by)

\* A comparison that lets equal keys overtake each other.
Before_OrEqual(x, e, sort_by, reverse) ==
    IF reverse THEN SortKey(x, sort_by) >= SortKey(e, sort_by)
               ELSE SortKey(x, sort_by) <= SortKey(e, sort_by)

\* x comes strictly before e in the requested order.
Before(x, e, sort_by, reverse) ==
    IF reverse THEN SortKey(x, sort_by) > SortKey(e, sort_by)
               ELSE SortKey(x, sort_by) < SortKey(e, sort_by)

\* Insert x, which followed every element of the sorted s in the input,
\* behind the elements it does not come strictly before.
RECURSIVE InsertSorted(_, _, _, _)
InsertSorted(s, x, sort_by, reverse) ==
    IF s = <<>> THEN <<x>>
    ELSE IF Before(x, s[Len(s)], sort_by, reverse)
         THEN Append(InsertSorted(SubSeq(s, 1, Len(s) - 1), x, sort_by, reverse),
                     s[Len(s)])
         ELSE Append(s, x)

\* Python's sorted is stable, with reverse=True too: the result is the one
\* a stable insertion sort gives.
RECURSIVE Sorted(_, _, _)
Sorted(s, sort_by, reverse) ==
    IF s = <<>> THEN <<>>
    ELSE InsertSorted(Sorted(SubSeq(s, 1, Len(s) - 1), sort_by, reverse),
                      s[Len(s)], sort_by, reverse)

(***************************************************************************)
(* Requests, responses and the inputs of the model.                        *)
(***************************************************************************)
NoReq == [op |-> "none", id |-> "", body |-> <<>>]

Response(op, id, status, kind, code, content, loads, writes) ==
    [op |-> op, id |-> id, status |-> status, kind |-> kind,
     code |-> code, content |-> content, loads |-> loads, writes |-> writes]

\* A handler that returns an HTTPException object instead of raising it:
\* FastAPI serialises the object's attributes as the body of a 200.
ReturnedHTTPException(op, id, code, loads) ==
    Response(op, id, 200, "HTTPException", code, <<>>, loads, 0)

Ann == [name |-> "Ann", city |-> "Pune", age |-> 30, gender |-> "Female",
        height |-> 160, weight |-> 50]

Raj == [name |-> "Raj", city |-> "Goa", age |-> 45, gender |-> "Other",
        height |-> 180, weight |-> 75]

Zoe == [name |-> "Zoe", city |-> "Pune", age |-> 61, gender |-> "Male",
        height |-> 160, weight |-> 75]

WithId(p, id) ==
    [id |-> id, name |-> p.name, city |-> p.city, age |-> p.age,
     gender |-> p.gender, height |-> p.height, weight |-> p.weight]

\* Bodies of POST /create: two that pass Patient and four that do not.
CreateBodies ==
    {Ann, Raj,
     [Ann EXCEPT !.age = 0], [Ann EXCEPT !.age = 120],
     [Raj EXCEPT !.height = 0], [Ann EXCEPT !.weight = -5]}

NoFields == [f \in {} |-> 0]

\* Bodies of PUT /edit/{patient_id}.
UpdateBodies ==
    {[v |-> NoFields, nulls |-> {}],
     [v |-> [weight |-> 75], nulls |-> {}],
     [v |-> [height |-> 180], nulls |-> {}],
     [v |-> [city |-> "Goa", gender |-> "Male"], nulls |-> {}],
     [v |-> NoFields, nulls |-> {"name"}],
     [v |-> [age |-> 0], nulls |-> {}],
     [v |-> [age |-> 120], nulls |-> {}],
     [v |-> [gender |-> "Other"], nulls |-> {}],
     [v |-> [height |-> 0], nulls |-> {}],
     [v |-> [weight |-> -5], nulls |-> {}]}

SortFields == ValidFields \cup {"name"}

SortOrders == ValidOrders \cup {"up"}

\* A record as a hand-written patients.json holds it: base fields only.
Plain(p) ==
    [name |-> p.name, city |-> p.city, age |-> p.age, gender |-> p.gender,
     height |-> p.height, weight |-> p.weight]

\* A record as an earlier run of the service wrote it.
Written(p, id) == ModelDump(WithId(p, id))

\* The contents patients.json may have when the service starts.
InitFiles ==
    {<<>>,
     << <<"P1", Written(Ann, "P1")>>, <<"P2", Plain(Raj)>> >>,
     << <<"P3", Plain(Ann)>>, <<"P1", Written(Raj, "P1")>>, <<"P2", Plain(Zoe)>> >>}

(***************************************************************************)
(* Storage accessor.                                                       *)
(***************************************************************************)
\* A save that adds the caller's records to the file instead of replacing
\* the file's content.
SaveData_Merge(d) ==
    file' = d \o SelectSeq(file, LAMBDA e : ~Has(d, e[1]))

\* load_data(): the whole collection, as the file holds it now.
LoadData == file

\* save_data(data), and the open/json.dump of create_patient: the file is
\* overwritten with the whole of the caller's collection.
SaveData(d) == file' = d

TypeOK ==
    /\ pc \in [Threads -> {"idle", "create_dump", "create_save",
                           "update_save", "delete_save"}]
    /\ nreq \in 0..MaxRequests
    /\ \A t \in Threads : nloads[t] \in 0..1 /\ nwrites[t] \in 0..2
    /\ \A i \in DOMAIN file : file[i][1] \in Ids \cup {"P3"}
    /\ Cardinality(Keys(file)) = Len(file)

Init ==
    /\ file \in InitFiles
    /\ pc = [t \in Threads |-> "idle"]
    /\ req = [t \in Threads |-> NoReq]
    /\ data = [t \in Threads |-> <<>>]
    /\ loaded = [t \in Threads |-> <<>>]
    /\ nloads = [t \in Threads |-> 0]
    /\ nwrites = [t \in Threads |-> 0]
    /\ resp = Response("none", "", 0, "none", 0, <<>>, 0, 0)
    /\ done = {}
    /\ nreq = 0

\* A new request goes to an idle worker thread; the threads are
\* interchangeable, so it is the first idle one.
Idle(t) ==
    /\ pc[t] = "idle"
    /\ \A o \in Threads : o < t => pc[o] # "idle"

\* A request that is answered in the step that receives it.
Answer(r) ==
    /\ nreq < MaxRequests
    /\ resp' = r
    /\ nreq' = nreq + 1
    /\ UNCHANGED <<file, pc, req, data, loaded, nloads, nwrites, done>>

\* A request that goes on to write: thread t keeps its locals.
Continue(t, op, id, body, at, d) ==
    /\ nreq < MaxRequests
    /\ pc' = [pc EXCEPT ![t] = at]
    /\ req' = [req EXCEPT ![t] = [op |-> op, id |-> id, body |-> body]]
    /\ data' = [data EXCEPT ![t] = d]
    /\ loaded' = [loaded EXCEPT ![t] = LoadData]
    /\ nloads' = [nloads EXCEPT ![t] = 1]
    /\ nwrites' = [nwrites EXCEPT ![t] = 0]
    /\ nreq' = nreq + 1
    /\ UNCHANGED <<file, resp, done>>

\* The last step of a request of thread t: respond and drop the locals.
Finish(t, status, kind, content) ==
    /\ resp' = Response(req[t].op, req[t].id, status, kind, 0,
                        content, nloads[t], nwrites[t] + 1)
    /\ pc' = [pc EXCEPT ![t] = "idle"]
    /\ req' = [req EXCEPT ![t] = NoReq]
    /\ data' = [data EXCEPT ![t] = <<>>]
    /\ loaded' = [loaded EXCEPT ![t] = <<>>]
    /\ nloads' = [nloads EXCEPT ![t] = 0]
    /\ nwrites' = [nwrites EXCEPT ![t] = 0]
    /\ done' = done \cup {[op |-> req[t].op, id |-> req[t].id]}
    /\ UNCHANGED nreq

(***************************************************************************)
(* Request handlers.                                                       *)
(***************************************************************************)
\* GET /
hello ==
    /\ Answer(Response("hello", "", 200, "message", 0, <<>>, 0, 0))

\* GET /about
about ==
    /\ Answer(Response("about", "", 200, "message", 0, <<>>, 0, 0))

\* GET /view
view ==
    /\ Answer(Response("view", "", 200, "patients", 0, LoadData, 1, 0))

\* A view that takes the record out of patients.json as it answers.
view_patient_Pop(patient_id) ==
    /\ LET d == LoadData
       IN  IF Has(d, patient_id)
           THEN /\ nreq < MaxRequests
                /\ resp' = Response("view_patient", patient_id, 200,
                                    "patient", 0, Get(d, patient_id), 1, 1)
                /\ nreq' = nreq + 1
                /\ SaveData(Del(d, patient_id))
                /\ UNCHANGED <<pc, req, data, loaded, nloads, nwrites, done>>
           ELSE Answer(ReturnedHTTPException("view_patient",
                                             patient_id, 404, 1))

\* GET /view/{patient_id}
view_patient(patient_id) ==
    /\ LET d == LoadData
       IN  IF Has(d, patient_id)
           THEN Answer(Response("view_patient", patient_id, 200,
                                "patient", 0, Get(d, patient_id), 1, 0))
           ELSE Answer(ReturnedHTTPException("view_patient",
                                             patient_id, 404, 1))

\* GET /sort
sort_patients(sort_by, order) ==
    /\ IF sort_by \notin ValidFields
       THEN Answer(ReturnedHTTPException("sort_patients", "", 400, 0))
       ELSE IF order \notin ValidOrders
       THEN Answer(ReturnedHTTPException("sort_patients", "", 400, 0))
       ELSE Answer(Response("sort_patients", "", 200, "sorted", 0,
                            [by |-> sort_by, order |-> order,
                             list |-> Sorted(Values(LoadData), sort_by,
                                             order = "desc")],
                            1, 0))

\* POST /create, up to the first write.  FastAPI validates the body
\* against Patient before the handler runs (422 on failure).
create_patient(t, patient) ==
    /\ Idle(t)
    /\ IF ~PatientValid(patient)
       THEN Answer(Response("create_patient", patient.id, 422,
                            "RequestValidationError", 0, <<>>, 0, 0))
       ELSE LET d == LoadData
            IN  IF Has(d, patient.id)
                THEN Answer(ReturnedHTTPException("create_patient",
                                                  patient.id, 400, 1))
                ELSE Continue(t, "create_patient", patient.id, patient, "create_dump",
                              Put(d, patient.id, ModelDump(patient)))

\* Lines 101-102: open('patients.json', 'w'); json.dump(data, f, indent=4)
create_dump(t) ==
    /\ pc[t] = "create_dump"
    /\ SaveData(data[t])
    /\ pc' = [pc EXCEPT ![t] = "create_save"]
    /\ nwrites' = [nwrites EXCEPT ![t] = nwrites[t] + 1]
    /\ UNCHANGED <<req, data, loaded, nloads, resp, done, nreq>>

\* Lines 105-107: save_data(data) and the 201.
create_save(t) ==
    /\ pc[t] = "create_save"
    /\ SaveData(data[t])
    /\ Finish(t, 201, "message", <<>>)

\* The slip of view_patient and create_patient made here too: the error
\* object is returned, not sent.
UpdateNotFound_Returned(patient_id) ==
    ReturnedHTTPException("update_patient", patient_id, 404, 1)

\* Line 116: JSONResponse(status_code=404, ...)
UpdateNotFound(patient_id) ==
    Response("update_patient", patient_id, 404, "message", 0, <<>>, 1, 0)

\* PUT /edit/{patient_id}, up to the write.  FastAPI validates the body
\* against PatientUpdate before the handler runs (422 on failure); the
\* ValidationError that Patient(...) raises inside the handler is not
\* handled and becomes a 500.
update_patient(t, patient_id, patient_update) ==
    /\ Idle(t)
    /\ IF ~PatientUpdateValid(patient_update)
       THEN Answer(Response("update_patient", patient_id, 422,
                            "RequestValidationError", 0, <<>>, 0, 0))
       ELSE LET d == LoadData
            IN  IF ~Has(d, patient_id)
                THEN Answer(UpdateNotFound(patient_id))
                ELSE LET m == Merge(Get(d, patient_id), patient_update, patient_id)
                     IN  IF ~PatientConstructs(m)
                         THEN Answer(Response("update_patient",
                                              patient_id, 500, "ValidationError",
                                              0, <<>>, 1, 0))
                         ELSE Continue(t, "update_patient", patient_id,
                                       patient_update, "update_save",
                                       Put(d, patient_id, ModelDump(m.v)))

\* Lines 133-135: save_data(data) and the 200.
update_save(t) ==
    /\ pc[t] = "update_save"
    /\ SaveData(data[t])
    /\ Finish(t, 200, "message", <<>>)

\* DELETE /delete/{patient_id}, up to the write.
delete_patient(t, patient_id) ==
    /\ Idle(t)
    /\ LET d == LoadData
       IN  IF ~Has(d, patient_id)
           THEN Answer(Response("delete_patient", patient_id, 404,
                                "message", 0, <<>>, 1, 0))
           ELSE Continue(t, "delete_patient", patient_id, <<>>, "delete_save",
                         Del(d, patient_id))

\* Lines 144-145: save_data(data) and the 200.
delete_save(t) ==
    /\ pc[t] = "delete_save"
    /\ SaveData(data[t])
    /\ Finish(t, 200, "message", <<>>)

Next ==
    \/ hello
    \/ about
    \/ view
    \/ \E id \in Ids : view_patient(id)
    \/ \E f \in SortFields, o \in SortOrders : sort_patients(f, o)
    \/ \E t \in Threads, id \in Ids, b \in CreateBodies :
          create_patient(t, WithId(b, id))
    \/ \E t \in Threads : create_dump(t)
    \/ \E t \in Threads : create_save(t)
    \/ \E t \in Threads, id \in Ids, u \in UpdateBodies :
          update_patient(t, id, u)
    \/ \E t \in Threads : update_save(t)
    \/ \E t \in Threads, id \in Ids : delete_patient(t, id)
    \/ \E t \in Threads : delete_save(t)

Spec == Init /\ [][Next]_vars

(***************************************************************************)
(* The Record Model on its own: records are created, one request at a      *)
(* time, from heights and weights whose bmi lies on and around the         *)
(* thresholds of Patient.verdict, and are read back.                       *)
(***************************************************************************)
\* <<height, weight>>; the bmi are 15.43, 18.49, 18.5, 24.89, 24.9, 24.91,
\* 24.99, 25, 29.89, 29.9, 29.84 and 39.06.
Measures ==
    {<<180, 50>>, <<208, 80>>, <<200, 74>>, <<150, 56>>, <<177, 78>>,
     <<170, 72>>, <<196, 96>>, <<200, 100>>, <<182, 99>>, <<144, 62>>,
     <<132, 52>>, <<160, 100>>}

Measured(id, hw) ==
    [WithId(Ann, id) EXCEPT !.height = hw[1], !.weight = hw[2]]

RecordInit == Init /\ file = <<>>

RecordNext ==
    \/ \E id \in Ids, hw \in Measures : create_patient(1, Measured(id, hw))
    \/ create_dump(1)
    \/ create_save(1)
    \/ \E id \in Ids : view_patient(id)

SpecRecord == RecordInit /\ [][RecordNext]_vars

(***************************************************************************)
(* Steps of a request, as the properties below name them.                  *)
(***************************************************************************)
\* Thread t writes patients.json in this step.
Writes(t) == pc[t] # "idle" /\ pc'[t] # pc[t]

\* Thread t writes patients.json and answers in this step.
Completes(t, at) == pc[t] = at /\ pc'[t] = "idle"

\* No request went on towards a write in this step.
NoneAccepted == pc' = pc /\ data' = data

\* A request is received in this step.
Received == nreq' = nreq + 1

\* A request for handler op is received in this step: it is answered at
\* once, or a thread goes on with it.
ReceivedFor(op) ==
    /\ Received
    /\ \/ pc' = pc /\ resp'.op = op
       \/ \E t \in Threads : pc'[t] # pc[t] /\ req'[t].op = op

\* The same, for a request that names identifier id.
ReceivedOn(op, id) ==
    /\ Received
    /\ \/ pc' = pc /\ resp'.op = op /\ resp'.id = id
       \/ \E t \in Threads : pc'[t] # pc[t] /\ req'[t].op = op /\ req'[t].id = id

(***************************************************************************)
(* C1.  A create whose identifier is already in the persisted collection   *)
(* leaves the collection unchanged and answers with HTTP status 400.       *)
(* Stated for a body that passes Patient, so that the identifier check is  *)
(* what decides the answer.                                                *)
(***************************************************************************)
C1_DuplicateCreateIs400 ==
    [][\A id \in Ids : (Received /\ Has(file, id)) =>
         \A t \in Threads, b \in CreateBodies :
            (PatientValid(b) /\ create_patient(t, WithId(b, id)))
               => (file' = file /\ NoneAccepted /\ resp'.status = 400)]_vars

(***************************************************************************)
(* C2.  An update of an identifier that is not in the persisted collection *)
(* leaves the collection unchanged and answers 404, whatever the body.     *)
(***************************************************************************)
C2_UpdateMissingIs404 ==
    [][\A id \in Ids : (Received /\ ~Has(file, id)) =>
         \A t \in Threads, u \in UpdateBodies :
            update_patient(t, id, u)
               => (file' = file /\ NoneAccepted /\ resp'.status = 404)]_vars

\* C2 as amended: 404 for every body that passes PatientUpdate, 422 for a
\* body that does not; the collection is unchanged in both cases.
C2_UpdateMissing ==
    [][\A id \in Ids : (ReceivedOn("update_patient", id) /\ ~Has(file, id)) =>
         \A t \in Threads, u \in UpdateBodies :
            update_patient(t, id, u)
               => /\ file' = file
                  /\ NoneAccepted
                  /\ resp'.op = "update_patient" /\ resp'.id = id
                  /\ resp'.status = IF PatientUpdateValid(u) THEN 404 ELSE 422]_vars

\* An update of an absent identifier was answered 404.
C2_Witness ==
    /\ resp.op = "update_patient"
    /\ resp.status = 404
    /\ ~Has(file, resp.id)
    /\ file # <<>>

(***************************************************************************)
(* C3.  An update of an existing identifier with a partial body that       *)
(* passes validation is accepted, and when it has written: every field     *)
(* the body supplies holds the supplied value, every base field the body   *)
(* omits holds the value it had in the collection the request loaded, and  *)
(* every other record is as the request loaded it.  A body passes          *)
(* validation here when it passes PatientUpdate and nulls no field; the    *)
(* stored record is one that passes Patient.                               *)
(***************************************************************************)
C3_UpdateMerges ==
    [][/\ \A id \in Ids :
            (/\ ReceivedOn("update_patient", id)
             /\ Has(file, id)
             /\ BaseFields \subseteq DOMAIN Get(file, id)
             /\ PatientValid(Get(file, id))) =>
               \A t \in Threads, u \in UpdateBodies :
                  (/\ PatientUpdateValid(u) /\ u.nulls = {}
                   /\ update_patient(t, id, u))
                     => (pc'[t] = "update_save" /\ req'[t].body = u /\ file' = file)
       /\ \A t \in Threads : Completes(t, "update_save") =>
            LET u   == req[t].body
                id  == req[t].id
                old == Get(loaded[t], id)
            IN  /\ resp'.status = 200
                /\ Has(file', id)
                /\ \A f \in DOMAIN u.v : Get(file', id)[f] = u.v[f]
                /\ \A f \in BaseFields \ DOMAIN u.v : Get(file', id)[f] = old[f]
                /\ Len(file') = Len(loaded[t])
                /\ \A i \in DOMAIN loaded[t] :
                      loaded[t][i][1] # id => file'[i] = loaded[t][i]]_vars

\* An update that set only the weight of Ann's record has been written:
\* the weight is the new one, the other fields are Ann's, and the
\* collection holds other records.
C3_Witness ==
    /\ resp.op = "update_patient" /\ resp.status = 200
    /\ Has(file, resp.id)
    /\ Get(file, resp.id).weight = 75
    /\ Get(file, resp.id).name = "Ann"
    /\ Get(file, resp.id).height = 160
    /\ Len(file) >= 2

(***************************************************************************)
(* C4.  An update of an existing identifier whose merged record fails the  *)
(* Record Model is rejected with HTTP status 422 and leaves the persisted  *)
(* collection unchanged, both when the body fails PatientUpdate and when   *)
(* the body passes PatientUpdate but the merged record fails Patient.      *)
(***************************************************************************)
C4_InvalidUpdateIs422 ==
    [][\A id \in Ids : (Received /\ Has(file, id)) =>
         \A t \in Threads, u \in UpdateBodies :
            (/\ \/ ~PatientUpdateValid(u)
                \/ ~PatientConstructs(Merge(Get(file, id), u, id))
             /\ update_patient(t, id, u))
               => (file' = file /\ NoneAccepted /\ resp'.status = 422)]_vars

(***************************************************************************)
(* C5.  A delete of a present identifier removes exactly that record (the  *)
(* other records are as the request loaded them), and every later          *)
(* view-one of that identifier is answered not-found (404) as long as no   *)
(* create of that identifier has succeeded.                                *)
(***************************************************************************)
C5_DeleteThenViewNotFound ==
    [][/\ \A t \in Threads : Completes(t, "delete_save") =>
            file' = Del(loaded[t], req[t].id)
       /\ \A id \in Ids :
            (/\ [op |-> "delete_patient", id |-> id] \in done
             /\ [op |-> "create_patient", id |-> id] \notin done
             /\ view_patient(id))
               => resp'.status = 404]_vars

(***************************************************************************)
(* C6.  The value that create and update persist for a record holds only   *)
(* the base fields: neither the identifier nor bmi and verdict are         *)
(* written to storage.                                                     *)
(***************************************************************************)
WritesRecord(t) ==
    Writes(t) /\ req[t].op \in {"create_patient", "update_patient"}

C6_OnlyBaseFieldsStored ==
    [][\A t \in Threads : WritesRecord(t) =>
         DOMAIN Get(file', req[t].id) \subseteq BaseFields]_vars

\* C6 as amended: the value that create and update persist holds the six
\* base fields and the derived fields bmi and verdict, and never the
\* identifier.
C6_BaseAndDerivedStored ==
    [][\A t \in Threads : WritesRecord(t) =>
         /\ Has(file', req[t].id)
         /\ DOMAIN Get(file', req[t].id) = BaseFields \cup DerivedFields
         /\ "id" \notin DOMAIN Get(file', req[t].id)]_vars

\* A create has been answered 201 and its record is in the file, with bmi
\* and verdict in it.
C6_Witness ==
    /\ resp.op = "create_patient" /\ resp.status = 201
    /\ Has(file, resp.id)
    /\ DerivedFields \subseteq DOMAIN Get(file, resp.id)

(***************************************************************************)
(* C7.  A write can be lost.  Every write of patients.json puts back, for  *)
(* every identifier but the request's own, what the request loaded,        *)
(* whatever the file holds by then; so two overlapping requests can both   *)
(* report success while the file lacks the effect of one (C7_LostWrite).   *)
(***************************************************************************)
C7_SaveOverwrites ==
    [][\A t \in Threads : Writes(t) =>
         /\ file' = data[t]
         /\ \A k \in (Keys(file') \cup Keys(loaded[t])) \ {req[t].id} :
               /\ Has(file', k) /\ Has(loaded[t], k)
               /\ Get(file', k) = Get(loaded[t], k)]_vars

\* Two requests were received, on different identifiers; both reported
\* success, one of them a create; no delete of the created identifier was
\* ever received, and the file does not hold it.
C7_LostWrite ==
    /\ nreq = 2 /\ Cardinality(done) = 2
    /\ \A t \in Threads : pc[t] = "idle"
    /\ \E id \in Ids :
          /\ [op |-> "create_patient", id |-> id] \in done
          /\ \A r \in done : r.id = id => r.op = "create_patient"
          /\ ~Has(file, id)

\* The same on one identifier: an update and a delete of it both reported
\* success, and the file still holds the record.
C7_LostWriteSameId ==
    /\ nreq = 2
    /\ \A t \in Threads : pc[t] = "idle"
    /\ \E id \in Ids :
          /\ done = {[op |-> "update_patient", id |-> id],
                     [op |-> "delete_patient", id |-> id]}
          /\ Has(file, id)

(***************************************************************************)
(* C8.  View-one answers 200 with the stored record when the identifier    *)
(* is in the persisted collection, and 404 when it is not.                 *)
(***************************************************************************)
C8_ViewOneStatus ==
    [][\A id \in Ids : view_patient(id) =>
         IF Has(file, id)
         THEN resp'.status = 200 /\ resp'.content = Get(file, id)
         ELSE resp'.status = 404]_vars

(***************************************************************************)
(* C9.  A create with an identifier that is not in the persisted           *)
(* collection and a body that passes Patient is accepted and answered      *)
(* 201; the collection then maps the identifier to the body's field        *)
(* values, and every record the request loaded is unchanged.               *)
(***************************************************************************)
C9_CreateStores ==
    [][/\ \A id \in Ids : (ReceivedOn("create_patient", id) /\ ~Has(file, id)) =>
            \A t \in Threads, b \in CreateBodies :
               (PatientValid(b) /\ create_patient(t, WithId(b, id)))
                  => (pc'[t] = "create_dump" /\ req'[t].body = WithId(b, id))
       /\ \A t \in Threads : pc[t] = "create_dump" => pc'[t] \in {"create_dump", "create_save"}
       /\ \A t \in Threads : Completes(t, "create_save") =>
            LET id == req[t].id
            IN  /\ resp'.status = 201
                /\ Has(file', id)
                /\ \A f \in BaseFields : Get(file', id)[f] = req[t].body[f]
                /\ Len(file') = Len(loaded[t]) + 1
                /\ \A i \in DOMAIN loaded[t] : file'[i] = loaded[t][i]]_vars

\* A create has been answered 201 on a collection that held records, and
\* the file holds the new record behind them.
C9_Witness ==
    /\ resp.op = "create_patient" /\ resp.status = 201
    /\ Len(file) >= 2
    /\ file[Len(file)][1] = resp.id
    /\ file[Len(file)][2].name \in {"Ann", "Raj"}

(***************************************************************************)
(* C10.  A sort by height, weight or bmi, asc or desc, returns every       *)
(* stored record exactly once, in non-decreasing (asc) or non-increasing   *)
(* (desc) order of the stored value of the sort field, a record without    *)
(* the field counting as 0; records with equal values keep their storage   *)
(* order, in both orders.                                                  *)
(***************************************************************************)
StoredOr0(x, f) == IF f \in DOMAIN x THEN x[f] ELSE 0

\* out is inp rearranged by a permutation that orders the keys and keeps
\* the input order of equal keys.
StableSortOf(out, inp, f, o) ==
    /\ Len(out) = Len(inp)
    /\ \E p \in Permutations(DOMAIN inp) :
          /\ \A i \in DOMAIN inp : out[i] = inp[p[i]]
          /\ \A i, j \in DOMAIN inp : i < j =>
                /\ o = "asc" => StoredOr0(out[i], f) <= StoredOr0(out[j], f)
                /\ o = "desc" => StoredOr0(out[i], f) >= StoredOr0(out[j], f)
                /\ StoredOr0(out[i], f) = StoredOr0(out[j], f) => p[i] < p[j]

C10_SortIsStable ==
    [][ReceivedFor("sort_patients") =>
         \A f \in ValidFields, o \in ValidOrders : sort_patients(f, o) =>
            /\ resp'.status = 200
            /\ file' = file
            /\ StableSortOf(resp'.content.list, Values(file), f, o)]_vars

\* A descending sort by bmi has returned three records: two without a bmi,
\* which differ and are behind the one that has a bmi.
C10_Witness ==
    /\ resp.op = "sort_patients" /\ resp.status = 200
    /\ resp.kind = "sorted"
    /\ resp.content.by = "bmi" /\ resp.content.order = "desc"
    /\ Len(resp.content.list) = 3
    /\ "bmi" \in DOMAIN resp.content.list[1]
    /\ "bmi" \notin DOMAIN resp.content.list[2]
    /\ "bmi" \notin DOMAIN resp.content.list[3]
    /\ resp.content.list[2] # resp.content.list[3]

(***************************************************************************)
(* C11.  A sort by bmi orders the records by the bmi derived from each     *)
(* record's height and weight: with order=desc, for any persisted          *)
(* collection, a record with a larger weight / (height/100)^2 comes        *)
(* before one with a smaller value.                                        *)
(***************************************************************************)
\* weight / (height/100)^2 of x is larger than that of y.
LargerDerivedBmi(x, y) ==
    x.weight * y.height * y.height > y.weight * x.height * x.height

C11_SortByDerivedBmi ==
    [][(ReceivedFor("sort_patients") /\ sort_patients("bmi", "desc")) =>
         LET out == resp'.content.list
         IN  \A i, j \in DOMAIN out :
                LargerDerivedBmi(out[i], out[j]) => i < j]_vars

\* C11 as amended: a sort by bmi orders the records by the bmi value that
\* is stored in each record, a record stored without a bmi counting as 0:
\* with order=desc a record with a larger stored bmi comes before one
\* with a smaller stored bmi.
C11_SortByStoredBmi ==
    [][(ReceivedFor("sort_patients") /\ sort_patients("bmi", "desc")) =>
         LET out == resp'.content.list
         IN  /\ Len(out) = Len(file)
             /\ \A i, j \in DOMAIN out :
                   StoredOr0(out[i], "bmi") > StoredOr0(out[j], "bmi") => i < j]_vars

\* A descending sort by bmi of a file that holds B (160 cm, 50 kg, bmi
\* 19.53) in front of A (180 cm, 75 kg, bmi 23.15) has returned A, B.
C11_Witness ==
    /\ resp.op = "sort_patients" /\ resp.kind = "sorted"
    /\ resp.content.by = "bmi" /\ resp.content.order = "desc"
    /\ Len(resp.content.list) = 2 /\ Len(file) = 2
    /\ "bmi" \in DOMAIN file[1][2] /\ file[1][2].bmi = 1953
    /\ "bmi" \in DOMAIN file[2][2] /\ file[2][2].bmi = 2315
    /\ resp.content.list[1] = file[2][2]
    /\ resp.content.list[1].height = 180 /\ resp.content.list[1].weight = 75
    /\ resp.content.list[2] = file[1][2]
    /\ resp.content.list[2].height = 160 /\ resp.content.list[2].weight = 50

(***************************************************************************)
(* C12.  A sort with a sort_by outside {height, weight, bmi} or an order   *)
(* outside {asc, desc} is answered with HTTP status 400 and leaves the     *)
(* persisted collection untouched.                                         *)
(***************************************************************************)
C12_BadSortIs400 ==
    [][ReceivedFor("sort_patients") =>
         \A f \in SortFields, o \in SortOrders :
            ((f \notin ValidFields \/ o \notin ValidOrders) /\ sort_patients(f, o))
               => (file' = file /\ NoneAccepted /\ resp'.status = 400)]_vars

(***************************************************************************)
(* C13.  The verdict is determined by the bmi as the threshold table       *)
(* says: below 18.5 Underweight; from 18.5 to below 24.9 Healthy; from 25  *)
(* to below 29.9 Overweight; every other bmi, the gap from 24.9 to below   *)
(* 25 and every bmi from 29.9 on, Obese; exactly one verdict for every     *)
(* bmi.  Stated for every record the Record Model produces.                *)
(***************************************************************************)
Verdicts == {"Underweight", "Healthy", "Overweight", "Obese"}

MatchesTable(b, v) ==
    /\ v \in Verdicts
    /\ b < 1850 => v = "Underweight"
    /\ (1850 <= b /\ b < 2490) => v = "Healthy"
    /\ (2500 <= b /\ b < 2990) => v = "Overweight"
    /\ ((2490 <= b /\ b < 2500) \/ b >= 2990) => v = "Obese"

C13_VerdictTable ==
    /\ \A i \in DOMAIN file : MatchesTable(file[i][2].bmi, file[i][2].verdict)
    /\ \A t \in Threads : \A i \in DOMAIN data[t] :
          MatchesTable(data[t][i][2].bmi, data[t][i][2].verdict)
    /\ resp.kind = "patient" => MatchesTable(resp.content.bmi, resp.content.verdict)

\* A record whose bmi lies in the gap has been read back as Obese, next to
\* a stored record with bmi 25 that is Overweight.
C13_Witness ==
    /\ resp.kind = "patient"
    /\ resp.content.bmi >= 2490 /\ resp.content.bmi < 2500
    /\ resp.content.verdict = "Obese"
    /\ \E i \in DOMAIN file :
          file[i][2].bmi = 2500 /\ file[i][2].verdict = "Overweight"

(***************************************************************************)
(* C14.  Every successful create, update and delete has loaded the         *)
(* persisted collection exactly once and written it exactly once: no       *)
(* request writes patients.json more than once.                            *)
(***************************************************************************)
C14_OneLoadOneSave ==
    (/\ resp.op \in {"create_patient", "update_patient", "delete_patient"}
     /\ resp.kind = "message"
     /\ resp.status \in {200, 201})
       => (resp.loads = 1 /\ resp.writes = 1)

(***************************************************************************)
(* C15.  Gender is validated asymmetrically.  A create whose body is       *)
(* otherwise valid and names a new identifier is accepted with any gender  *)
(* and stores that gender.  An update whose body supplies a gender outside *)
(* {Male, Female} is rejected with 422 and patients.json unchanged.  An    *)
(* update of a stored record whose gender is outside {Male, Female}, with  *)
(* a body that supplies no gender and is otherwise valid, is accepted and  *)
(* keeps the stored gender.                                                *)
(***************************************************************************)
\* The numeric constraints on the fields that r holds.
NumbersInRange(r) ==
    /\ "age" \in DOMAIN r => (0 < r.age /\ r.age < 120)
    /\ "height" \in DOMAIN r => 0 < r.height
    /\ "weight" \in DOMAIN r => 0 < r.weight

C15_GenderAsymmetry ==
    [][/\ \A id \in Ids :
            (ReceivedOn("create_patient", id) /\ ~Has(file, id)) =>
               \A b \in CreateBodies :
                  (b.gender \notin Genders /\ NumbersInRange(b)) =>
                     \A t \in Threads :
                        create_patient(t, WithId(b, id))
                           => /\ pc'[t] = "create_dump"
                              /\ Has(data'[t], id)
                              /\ Get(data'[t], id).gender = b.gender
       /\ \A t \in Threads :
            (Completes(t, "create_save") /\ req[t].body.gender \notin Genders)
               => /\ resp'.status = 201
                  /\ Has(file', req[t].id)
                  /\ Get(file', req[t].id).gender = req[t].body.gender
       /\ \A id \in Ids :
            ReceivedOn("update_patient", id) =>
               \A u \in UpdateBodies :
                  /\ ("gender" \in DOMAIN u.v /\ u.v.gender \notin Genders) =>
                        \A t \in Threads :
                           update_patient(t, id, u)
                              => (file' = file /\ NoneAccepted /\ resp'.status = 422)
                  /\ (/\ "gender" \notin DOMAIN u.v
                      /\ u.nulls = {}
                      /\ NumbersInRange(u.v)
                      /\ Has(file, id)
                      /\ BaseFields \subseteq DOMAIN Get(file, id)
                      /\ NumbersInRange(Get(file, id))
                      /\ Get(file, id).gender \notin Genders) =>
                        \A t \in Threads :
                           update_patient(t, id, u)
                              => /\ pc'[t] = "update_save"
                                 /\ Get(data'[t], id).gender = Get(file, id).gender
       /\ \A t \in Threads :
            (/\ Completes(t, "update_save")
             /\ "gender" \notin DOMAIN req[t].body.v
             /\ Get(loaded[t], req[t].id).gender \notin Genders)
               => /\ resp'.status = 200
                  /\ Get(file', req[t].id).gender = Get(loaded[t], req[t].id).gender]_vars

\* A record was created with the gender "Other" and then updated on its
\* weight: the update was answered 200, the record holds the gender "Other"
\* and the derived fields of the update.
C15_Witness ==
    /\ resp.op = "update_patient" /\ resp.status = 200
    /\ [op |-> "create_patient", id |-> resp.id] \in done
    /\ Has(file, resp.id)
    /\ Get(file, resp.id).gender = "Other"
    /\ Get(file, resp.id).weight = 75

(***************************************************************************)
(* C16.  From a patients.json whose records all satisfy the record         *)
(* constraints, after any sequence and interleaving of create, update and  *)
(* delete requests every persisted record has 0 < age < 120, height > 0    *)
(* and weight > 0.                                                         *)
(***************************************************************************)
C16_RecordsStayValid ==
    \A i \in DOMAIN file :
       LET r == file[i][2]
       IN  /\ {"age", "height", "weight"} \subseteq DOMAIN r
           /\ 0 < r.age /\ r.age < 120
           /\ 0 < r.height
           /\ 0 < r.weight

\* A create and an update have been written, and the request answered
\* last is one that was rejected with 422.
C16_Witness ==
    /\ \E id \in Ids : [op |-> "create_patient", id |-> id] \in done
    /\ \E id \in Ids : [op |-> "update_patient", id |-> id] \in done
    /\ resp.status = 422
    /\ resp.op \in {"create_patient", "update_patient"}
    /\ file # <<>>

(***************************************************************************)
(* C17.  A bmi and a verdict held in patients.json are never stale: in     *)
(* every reachable state a persisted record that holds them holds the bmi  *)
(* of its own height and weight, weight / (height/100)^2 rounded to two    *)
(* decimals, and the verdict of that bmi; also after an update that        *)
(* changes only the height or only the weight.  The records that hold a    *)
(* bmi are the ones written through create and update.                     *)
(***************************************************************************)
\* b, in hundredths, is a nearest two-decimal value of the bmi of r.
BmiOfRecord(r, b) ==
    LET hh == r.height * r.height
        d  == b * hh - r.weight * 1000000
    IN  /\ 2 * d <= hh
        /\ 2 * (0 - d) <= hh

C17_DerivedNeverStale ==
    \A i \in DOMAIN file :
       LET r == file[i][2]
       IN  /\ "bmi" \in DOMAIN r <=> "verdict" \in DOMAIN r
           /\ "bmi" \in DOMAIN r =>
                 /\ BmiOfRecord(r, r.bmi)
                 /\ MatchesTable(r.bmi, r.verdict)

\* Ann's record was created (bmi 19.53, Healthy) and an update that set
\* only its weight has been written: the record holds weight 75, bmi 29.3
\* and Overweight.
C17_Witness ==
    /\ resp.op = "update_patient" /\ resp.status = 200
    /\ Has(file, resp.id)
    /\ Get(file, resp.id).name = "Ann"
    /\ Get(file, resp.id).height = 160
    /\ Get(file, resp.id).weight = 75
    /\ Get(file, resp.id).bmi = 2930
    /\ Get(file, resp.id).verdict = "Overweight"
    /\ [op |-> "create_patient", id |-> resp.id] \in done

(***************************************************************************)
(* C18.  The read-only operations root, about, view-all, view-one and sort *)
(* never write patients.json, whether they succeed or answer an error: the *)
(* file after the request equals the file before it, and the request       *)
(* leaves no write pending.                                                *)
(***************************************************************************)
ReadOnlyOps == {"hello", "about", "view", "view_patient", "sort_patients"}

C18_ReadOnlyNeverWrites ==
    [][\A op \in ReadOnlyOps : ReceivedFor(op) =>
         /\ file' = file
         /\ NoneAccepted
         /\ resp'.op = op
         /\ resp'.writes = 0]_vars

\* A view of an absent identifier has answered its error after a write
\* request completed, with records in patients.json.
C18_Witness ==
    /\ resp.op = "view_patient"
    /\ resp.kind = "HTTPException"
    /\ done # {}
    /\ file # <<>>

=============================================================================
